---- MODULE Spec2Model ----
(***************************************************************************)
(* Model of src/components/CreditCard/index.jsx: the CreditCard display     *)
(* component, the zod validation schema and the UpdateForm component with   *)
(* its three asynchronous handlers (loadAccountData, handleAtualizarUsuario,*)
(* handleDeletarConta).                                                     *)
(*                                                                          *)
(* JavaScript strings are sequences of one-character strings.  JavaScript   *)
(* values are tagged records: Undefined, Str(s), Num(n).  A handler runs to *)
(* its next `await` without interleaving (single-threaded event loop), so   *)
(* one action is the code between two awaits; a network reply is a separate *)
(* action taken by the environment.                                         *)
(***************************************************************************)
EXTENDS Integers, Sequences, FiniteSets, TLC

\* ------------------------------------------------------------------ bounds
MaxCardLen == 17    \* longest card number string rendered
MaxStride  == 3     \* digit patterns used to build card numbers
MaxPad     == 1     \* most spaces put before / after a schema input
MaxClicks  == 3     \* most clicks on "Alterar Dados" and "Deletar Conta" together

\* ------------------------------------------------------- program constants
CepLength      == 9
TelefoneLength == 17
SenhaMin       == 8
CardGroup      == 4

\* --------------------------------------------------------------- JS values
Undefined == [t |-> "undefined"]
Str(s)    == [t |-> "string", s |-> s]
Num(n)    == [t |-> "number", n |-> n]
IsString(v) == v.t = "string"

Digits == <<"0", "1", "2", "3", "4", "5", "6", "7", "8", "9">>
Digit(i) == Digits[i + 1]
DigitChars == {Digits[i] : i \in 1..10}

Min(a, b) == IF a < b THEN a ELSE b

\* String.prototype.substr(start, length) for start >= 0, length >= 0
Substr(s, start, length) == SubSeq(s, start + 1, Min(start + length, Len(s)))

\* String.prototype.trim()
RECURSIVE TrimStart(_)
TrimStart(s) == IF s # <<>> /\ Head(s) = " " THEN TrimStart(Tail(s)) ELSE s
RECURSIVE TrimEnd(_)
TrimEnd(s) ==
  IF s # <<>> /\ s[Len(s)] = " " THEN TrimEnd(SubSeq(s, 1, Len(s) - 1)) ELSE s
Trim(s) == TrimEnd(TrimStart(s))

\* s.replace(/_/gi, '')
IsNotPlaceholder(c) == c # "_"
RemovePlaceholders(s) == SelectSeq(s, IsNotPlaceholder)

\* Number.prototype.toString() for a natural number
RECURSIVE NatToString(_)
NatToString(n) ==
  IF n < 10 THEN <<Digit(n)>> ELSE NatToString(n \div 10) \o <<Digit(n % 10)>>

\* String(v)
JsString(v) ==
  CASE v.t = "string" -> v.s
    [] v.t = "number" -> NatToString(v.n)
    [] OTHER -> <<"u", "n", "d", "e", "f", "i", "n", "e", "d">>

\* ---------------------------------------------------------- CreditCard
\* String.prototype.substring(start, end), which substr is easily mistaken for
Substring(s, start, end) ==
  SubSeq(s, Min(start, end) + 1, Min(IF start > end THEN start ELSE end, Len(s)))
FormatCardNumberWithSubstring(numeroCartao) ==
  Substring(numeroCartao, 0, CardGroup) \o <<" ">> \o
  Substring(numeroCartao, CardGroup, CardGroup) \o <<" ">> \o
  Substring(numeroCartao, 2 * CardGroup, CardGroup) \o <<" ">> \o
  Substring(numeroCartao, 3 * CardGroup, CardGroup)

\* the text of the cardNumber <div>
FormatCardNumber(numeroCartao) ==
  Substr(numeroCartao, 0, CardGroup) \o <<" ">> \o
  Substr(numeroCartao, CardGroup, CardGroup) \o <<" ">> \o
  Substr(numeroCartao, 2 * CardGroup, CardGroup) \o <<" ">> \o
  Substr(numeroCartao, 3 * CardGroup, CardGroup)

\* ---------------------------------------------------------------- schema
Fields == {"nome", "endereco", "cep", "numero", "telefone", "senha"}

NoIssue        == "ok"
MsgNome        == "Digite um nome válido."
MsgCep         == "Digite um CEP válido"
MsgTelefone    == "Digite um telefone válido"
MsgSenha       == "A senha deve conter no mínimo 8 caracteres"
MsgRequired    == "Required"
MsgNotString   == "Expected string"

\* z.string(): zod's issue for a value that is not a string
StringIssue(v) == IF v = Undefined THEN MsgRequired ELSE MsgNotString

NomeRefine(name) == Len(Trim(name)) # 0
\* the cep rule without its trim()
CepRefineNoTrim(cep) == Len(RemovePlaceholders(cep)) = CepLength
CepRefine(cep) == Len(RemovePlaceholders(Trim(cep))) = CepLength
TelefoneRefine(telefone) ==
  Len(RemovePlaceholders(Trim(telefone))) = TelefoneLength
SenhaMinOk(senha) == Len(senha) >= SenhaMin

\* z.string().refine(ok, {message}).optional() applied to v
OptionalRefined(v, ok, message) ==
  IF v = Undefined THEN NoIssue
  ELSE IF ~IsString(v) THEN StringIssue(v)
  ELSE IF ok THEN NoIssue ELSE message

NomeIssue(v) ==
  OptionalRefined(v, IsString(v) /\ NomeRefine(v.s), MsgNome)
CepIssue(v) ==
  OptionalRefined(v, IsString(v) /\ CepRefine(v.s), MsgCep)
TelefoneIssue(v) ==
  OptionalRefined(v, IsString(v) /\ TelefoneRefine(v.s), MsgTelefone)
SenhaIssue(v) ==
  OptionalRefined(v, IsString(v) /\ SenhaMinOk(v.s), MsgSenha)
PlainStringIssue(v) == IF IsString(v) THEN NoIssue ELSE StringIssue(v)

\* the issue the schema reports for field f holding v
FieldIssue(f, v) ==
  CASE f = "nome"     -> NomeIssue(v)
    [] f = "endereco" -> PlainStringIssue(v)
    [] f = "cep"      -> CepIssue(v)
    [] f = "numero"   -> PlainStringIssue(v)
    [] f = "telefone" -> TelefoneIssue(v)
    [] f = "senha"    -> SenhaIssue(v)

\* schema.safeParse(formData): the issue of every field
SchemaIssues(formData) == [f \in Fields |-> FieldIssue(f, formData[f])]
\* useForm() without its resolver: every submit is taken as valid
NoResolver(formData) == TRUE
SchemaAccepts(formData) == \A f \in Fields : FieldIssue(f, formData[f]) = NoIssue

\* ------------------------------------------------------------------ state
VARIABLES
  numeroCartao,   \* CreditCard: the numeroCartao prop
  cardNumber,     \* CreditCard: text of the cardNumber <div>, once rendered
  candidate,      \* schema: [field, value] handed to the schema
  issue,          \* schema: what the schema reported for candidate
  mounted,        \* UpdateForm: the instance is on screen
  effectRan,      \* UpdateForm: the mount effect has run
  isLoading,      \* useState(true)
  isSubmitting,   \* formState.isSubmitting
  form,           \* react-hook-form field values
  errors,         \* formState.errors, as the issue of every field
  data,           \* loadAccountData: the last `data` received
  populated,      \* loadAccountData: the field names handed to setValue
  getIssued,      \* calls of api.get('/conta')
  getResolved,    \* GET requests that resolved
  getRejected,    \* GET requests that rejected
  getOk,          \* loads that ran to setIsLoading(false)
  alerts,         \* calls of alert('Um erro ocorreu')
  putIssued,      \* calls of api.put('/clientes', formData)
  putOk,          \* PUT requests that resolved
  delIssued,      \* calls of api.delete('/clientes')
  delOk,          \* DELETE requests that resolved
  logoutCalls,    \* calls of logout()
  putRejected,    \* PUT requests that rejected
  delRejected,    \* DELETE requests that rejected
  thrown,         \* the last rejection caught: [op, error]
  toast,          \* the arguments of the last call of showToast
  toastCalls,     \* calls of showToast
  submits,        \* clicks on "Alterar Dados"
  deleteClicks    \* clicks on "Deletar Conta"

cardVars   == <<numeroCartao, cardNumber>>
schemaVars == <<candidate, issue>>
formVars   == <<mounted, effectRan, isLoading, isSubmitting, form, errors, data,
                populated, getIssued, getResolved, getRejected, getOk, alerts,
                putIssued, putOk, putRejected, delIssued, delOk, delRejected,
                logoutCalls, thrown, toast, toastCalls, submits, deleteClicks>>
vars == <<cardVars, schemaVars, formVars>>

\* ------------------------------------------------------------ sample data
Ana        == <<"A", "n", "a">>
Blank      == <<" ">>
RuaA       == <<"R", "u", "a">>
CepFull    == <<"0", "1", "2", "3", "4", "-", "5", "6", "7">>
CepPartial == <<"0", "1", "2", "3", "4", "-", "5", "_", "_">>
TelFull    == <<"+", "5", "5", " ", "1", "1", " ", "9", "9", "9", "9", "9",
                "-", "9", "9", "9", "9">>
TelPartial == <<"+", "5", "5", " ", "1", "1", " ", "9", "9", "9", "9", "9",
                "-", "9", "_", "_", "_">>
SenhaOk    == <<"1", "2", "3", "4", "5", "6", "7", "8">>
SenhaShort == <<"1", "2", "3">>

\* what the user can type into each field (onChange)
Typed(f) ==
  CASE f = "nome"     -> {Ana, Blank}
    [] f = "endereco" -> {RuaA}
    [] f = "cep"      -> {CepFull, CepPartial}
    [] f = "numero"   -> {<<"4", "2">>}
    [] f = "telefone" -> {TelFull, TelPartial}
    [] f = "senha"    -> {SenhaOk, SenhaShort}

\* data.cliente of a GET /conta reply
Clientes ==
  {[nome |-> Str(Ana), endereco |-> Str(RuaA), cep |-> Str(CepFull),
    numero |-> Num(42), telefone |-> Str(TelFull)],
   [nome |-> Str(Ana), endereco |-> Undefined, cep |-> Str(CepFull),
    numero |-> Undefined, telefone |-> Str(TelFull)]}
\* a GET /conta reply: data with or without data.cliente
GetReplies == [cliente : Clientes \cup {Undefined}]

\* what a rejected request throws
AppMessages == {"E-mail já cadastrado."}
AppErrors   == [isAppError : {TRUE}, message : AppMessages]
OtherErrors == [isAppError : {FALSE}, message : {"Network Error"}]
Thrown      == AppErrors \cup OtherErrors

NoData == [cliente |-> "none"]
NoThrown == [op |-> "none"]
NoToast == [title |-> "none"]
NoErrors == [f \in Fields |-> NoIssue]

\* ------------------------------------------------------------ UpdateForm
PutsOutstanding == putIssued - putOk - putRejected
DelsOutstanding == delIssued - delOk - delRejected
GetsOutstanding == getIssued - getResolved - getRejected

\* isLoading ? <Loading /> : <section> ... </section>
FormRendered == mounted /\ ~isLoading
\* the submit button without disabled={isSubmitting}
SubmitNeverDisabled == FormRendered
\* <Button type="submit" disabled={isSubmitting} /> inside the rendered form
SubmitEnabled == FormRendered /\ ~isSubmitting
\* <Button onClick={handleDeletarConta} /> inside the rendered section
DeleteEnabled == FormRendered

\* the effect of logout() on the form instance: the logged-out state shows no form
MountedAfterLogout == FALSE

\* loadAccountData up to its await: setIsLoading(true); api.get('/conta')
LoadAccountData ==
  /\ isLoading' = TRUE
  /\ getIssued' = getIssued + 1

\* loadAccountData with setValue('numero', data.cliente.numero), without String()
LoadPopulateRawNumero(reply) ==
  /\ form' = [form EXCEPT !["nome"] = reply.cliente.nome,
                          !["endereco"] = reply.cliente.endereco,
                          !["cep"] = reply.cliente.cep,
                          !["numero"] = reply.cliente.numero,
                          !["telefone"] = reply.cliente.telefone]
  /\ populated' = {"nome", "endereco", "cep", "numero", "telefone"}
  /\ isLoading' = FALSE
  /\ getOk' = getOk + 1
  /\ alerts' = alerts

\* loadAccountData after a reply carrying data.cliente: five setValue calls, then
\* setIsLoading(false)
LoadPopulate(reply) ==
  /\ form' = [form EXCEPT !["nome"] = reply.cliente.nome,
                          !["endereco"] = reply.cliente.endereco,
                          !["cep"] = reply.cliente.cep,
                          !["numero"] = Str(JsString(reply.cliente.numero)),
                          !["telefone"] = reply.cliente.telefone]
  /\ populated' = {"nome", "endereco", "cep", "numero", "telefone"}
  /\ isLoading' = FALSE
  /\ getOk' = getOk + 1
  /\ alerts' = alerts

\* a catch block that also leaves the loading state
LoadCatchStopsLoading ==
  /\ alerts' = alerts + 1
  /\ isLoading' = FALSE
  /\ UNCHANGED <<form, populated, getOk>>

\* loadAccountData's catch block: alert('Um erro ocorreu'); console.log(error)
LoadCatch ==
  /\ alerts' = alerts + 1
  /\ UNCHANGED <<form, populated, isLoading, getOk>>

\* the catch block of handleAtualizarUsuario and of handleDeletarConta
ToastFor(error) ==
  [title |-> IF error.isAppError THEN error.message ELSE "Erro no servidor.",
   description |-> IF error.isAppError
                   THEN "Verifique os dados e tente novamente."
                   ELSE "Tente novamente mais tarde.",
   isError |-> TRUE]
ShowToast(args) ==
  /\ toast' = args
  /\ toastCalls' = toastCalls + 1
\* handleAtualizarUsuario without its reload
UpdateThenNoReload == UNCHANGED <<isLoading, getIssued, toast, toastCalls>>
\* a catch block that reloads as well, as a `finally` would
UpdateCatchReloads(error) ==
  /\ ShowToast(ToastFor(error))
  /\ LoadAccountData
\* a catch block that shows error.message whatever the error is
DeleteCatchRawMessage(error) ==
  ShowToast([title |-> error.message,
             description |-> IF error.isAppError
                             THEN "Verifique os dados e tente novamente."
                             ELSE "Tente novamente mais tarde.",
             isError |-> TRUE])

\* handleAtualizarUsuario after api.put resolved: loadAccountData()
UpdateThen ==
  /\ LoadAccountData
  /\ UNCHANGED <<toast, toastCalls>>
UpdateCatch(error) ==
  /\ ShowToast(ToastFor(error))
  /\ UNCHANGED <<isLoading, getIssued>>
DeleteCatch(error) == ShowToast(ToastFor(error))

\* useEffect(() => { loadAccountData() }, [loadAccountData])
MountEffect ==
  /\ mounted /\ ~effectRan
  /\ effectRan' = TRUE
  /\ LoadAccountData
  /\ UNCHANGED <<cardVars, schemaVars, mounted, isSubmitting, form, errors,
                 data, populated, getResolved, getRejected, getOk, alerts,
                 putIssued, putOk, putRejected, delIssued, delOk, delRejected,
                 logoutCalls, thrown, toast, toastCalls, submits, deleteClicks>>

\* api.get('/conta') resolves and loadAccountData resumes
GetResolves(reply) ==
  /\ GetsOutstanding > 0
  /\ getResolved' = getResolved + 1
  /\ data' = reply
  /\ IF reply.cliente # Undefined THEN LoadPopulate(reply) ELSE LoadCatch
  /\ UNCHANGED <<cardVars, schemaVars, mounted, effectRan, isSubmitting,
                 errors, getIssued, getRejected, putIssued, putOk, putRejected,
                 delIssued, delOk, delRejected, logoutCalls, thrown, toast,
                 toastCalls, submits, deleteClicks>>

\* api.get('/conta') rejects and loadAccountData resumes in its catch block
GetRejects ==
  /\ GetsOutstanding > 0
  /\ getRejected' = getRejected + 1
  /\ LoadCatch
  /\ UNCHANGED <<cardVars, schemaVars, mounted, effectRan, isSubmitting,
                 errors, data, getIssued, getResolved, putIssued, putOk,
                 putRejected, delIssued, delOk, delRejected, logoutCalls,
                 thrown, toast, toastCalls, submits, deleteClicks>>

\* the user types v into field f of the rendered form (Controller onChange)
EditField(f, v) ==
  /\ FormRendered
  /\ form' = [form EXCEPT ![f] = Str(v)]
  /\ UNCHANGED <<cardVars, schemaVars, mounted, effectRan, isLoading,
                 isSubmitting, errors, data, populated, getIssued, getResolved,
                 getRejected, getOk, alerts, putIssued, putOk, putRejected,
                 delIssued, delOk, delRejected, logoutCalls, thrown, toast,
                 toastCalls, submits, deleteClicks>>

\* onSubmit={handleSubmit(handleAtualizarUsuario)}: the resolver runs the schema
\* on the field values; only accepted data reaches handleAtualizarUsuario, which
\* runs to its await of api.put
Submit ==
  /\ SubmitEnabled
  /\ submits + deleteClicks < MaxClicks
  /\ submits' = submits + 1
  /\ errors' = SchemaIssues(form)
  /\ IF SchemaAccepts(form)
     THEN /\ isSubmitting' = TRUE
          /\ putIssued' = putIssued + 1
     ELSE UNCHANGED <<isSubmitting, putIssued>>
  /\ UNCHANGED <<cardVars, schemaVars, mounted, effectRan, isLoading, form,
                 data, populated, getIssued, getResolved, getRejected, getOk,
                 alerts, putOk, putRejected, delIssued, delOk, delRejected,
                 logoutCalls, thrown, toast, toastCalls, deleteClicks>>

\* api.put resolves: handleAtualizarUsuario calls loadAccountData() and returns,
\* and handleSubmit clears isSubmitting
PutResolves ==
  /\ PutsOutstanding > 0
  /\ putOk' = putOk + 1
  /\ UpdateThen
  /\ isSubmitting' = FALSE
  /\ UNCHANGED <<cardVars, schemaVars, mounted, effectRan, form, errors, data,
                 populated, getResolved, getRejected, getOk, alerts, putIssued,
                 putRejected, delIssued, delOk, delRejected, logoutCalls,
                 thrown, submits, deleteClicks>>

\* api.put rejects: the catch block shows a toast, and handleSubmit clears
\* isSubmitting
PutRejects(error) ==
  /\ PutsOutstanding > 0
  /\ putRejected' = putRejected + 1
  /\ thrown' = [op |-> "PUT", error |-> error]
  /\ UpdateCatch(error)
  /\ isSubmitting' = FALSE
  /\ UNCHANGED <<cardVars, schemaVars, mounted, effectRan, form, errors, data,
                 populated, getResolved, getRejected, getOk, alerts, putIssued,
                 putOk, delIssued, delOk, delRejected, logoutCalls, submits,
                 deleteClicks>>

\* handleDeletarConta up to its await: window.confirm, then api.delete
DeleteClick(proceedWithDeleting) ==
  /\ DeleteEnabled
  /\ submits + deleteClicks < MaxClicks
  /\ deleteClicks' = deleteClicks + 1
  /\ delIssued' = IF proceedWithDeleting THEN delIssued + 1 ELSE delIssued
  /\ UNCHANGED <<cardVars, schemaVars, mounted, effectRan, isLoading,
                 isSubmitting, form, errors, data, populated, getIssued,
                 getResolved, getRejected, getOk, alerts, putIssued, putOk,
                 putRejected, delOk, delRejected, logoutCalls, thrown, toast,
                 toastCalls, submits>>

\* api.delete resolves: logout()
DeleteResolves ==
  /\ DelsOutstanding > 0
  /\ delOk' = delOk + 1
  /\ logoutCalls' = logoutCalls + 1
  /\ mounted' = MountedAfterLogout
  /\ UNCHANGED <<cardVars, schemaVars, effectRan, isLoading, isSubmitting,
                 form, errors, data, populated, getIssued, getResolved,
                 getRejected, getOk, alerts, putIssued, putOk, putRejected,
                 delIssued, delRejected, thrown, toast, toastCalls, submits,
                 deleteClicks>>

\* api.delete rejects: the catch block shows a toast
DeleteRejects(error) ==
  /\ DelsOutstanding > 0
  /\ delRejected' = delRejected + 1
  /\ thrown' = [op |-> "DELETE", error |-> error]
  /\ DeleteCatch(error)
  /\ UNCHANGED <<cardVars, schemaVars, mounted, effectRan, isLoading,
                 isSubmitting, form, errors, data, populated, getIssued,
                 getResolved, getRejected, getOk, alerts, putIssued, putOk,
                 putRejected, delIssued, delOk, logoutCalls, submits,
                 deleteClicks>>

CardIdle ==
  /\ numeroCartao = <<>>
  /\ cardNumber = Undefined
SchemaIdle ==
  /\ candidate = [field |-> "cep", value |-> Undefined]
  /\ issue = "unparsed"
FormIdle ==
  /\ mounted = FALSE
  /\ effectRan = FALSE
  /\ isLoading = TRUE
  /\ isSubmitting = FALSE
  /\ form = [f \in Fields |-> Undefined]
  /\ errors = NoErrors
  /\ data = NoData
  /\ populated = {}
  /\ getIssued = 0 /\ getResolved = 0 /\ getRejected = 0
  /\ getOk = 0 /\ alerts = 0
  /\ putIssued = 0 /\ putOk = 0
  /\ delIssued = 0 /\ delOk = 0 /\ logoutCalls = 0
  /\ putRejected = 0 /\ delRejected = 0
  /\ thrown = NoThrown /\ toast = NoToast /\ toastCalls = 0
  /\ submits = 0 /\ deleteClicks = 0

\* UpdateForm after its first render: useState(true), useForm without defaults
Init ==
  /\ CardIdle
  /\ SchemaIdle
  /\ mounted = TRUE
  /\ effectRan = FALSE
  /\ isLoading = TRUE
  /\ isSubmitting = FALSE
  /\ form = [f \in Fields |-> Undefined]
  /\ errors = NoErrors
  /\ data = NoData
  /\ populated = {}
  /\ getIssued = 0 /\ getResolved = 0 /\ getRejected = 0
  /\ getOk = 0 /\ alerts = 0
  /\ putIssued = 0 /\ putOk = 0
  /\ delIssued = 0 /\ delOk = 0 /\ logoutCalls = 0
  /\ putRejected = 0 /\ delRejected = 0
  /\ thrown = NoThrown /\ toast = NoToast /\ toastCalls = 0
  /\ submits = 0 /\ deleteClicks = 0

Next ==
  \/ MountEffect
  \/ \E reply \in GetReplies : GetResolves(reply)
  \/ GetRejects
  \/ \E f \in Fields : \E v \in Typed(f) : EditField(f, v)
  \/ Submit
  \/ PutResolves
  \/ \E error \in Thrown : PutRejects(error)
  \/ \E proceed \in BOOLEAN : DeleteClick(proceed)
  \/ DeleteResolves
  \/ \E error \in Thrown : DeleteRejects(error)

Spec == Init /\ [][Next]_vars

\* ------------------------------------------------- CreditCard on its own
\* card numbers of every length up to MaxCardLen: digit i is (i * k + c) mod 10
CardPattern(len, k, c) == [i \in 1..len |-> Digit(((i - 1) * k + c) % 10)]
CardInputs ==
  {CardPattern(len, k, c) : len \in 0..MaxCardLen, k \in 0..MaxStride, c \in 0..9}

\* CreditCard({ numeroCartao, ... }) renders the cardNumber <div>
RenderCard ==
  /\ cardNumber = Undefined
  /\ cardNumber' = Str(FormatCardNumber(numeroCartao))
  /\ UNCHANGED <<numeroCartao, schemaVars, formVars>>

InitCard ==
  /\ numeroCartao \in CardInputs
  /\ cardNumber = Undefined
  /\ SchemaIdle
  /\ FormIdle

SpecCard == InitCard /\ [][RenderCard]_vars

\* ----------------------------------------------------- schema on its own
Spaces(n) == [i \in 1..n |-> " "]
Pad(a, s, b) == Spaces(a) \o s \o Spaces(b)
\* what a masked input holds: the mask's placeholders at `holes`, typed digits elsewhere
MaskFill(full, holes) ==
  [i \in 1..Len(full) |-> IF i \in holes THEN "_" ELSE full[i]]
\* mask="99999-999"
CepMaskSlots == {1, 2, 3, 4, 5, 7, 8, 9}
\* mask="+5\5 99 99999-9999"
TelefoneMaskSlots == {5, 6, 8, 9, 10, 11, 12, 14, 15, 16, 17}
Pieces(full) == {SubSeq(full, i, j) : i \in 1..Len(full), j \in 0..Len(full)}
Masked(full, slots) ==
  {Pad(a, MaskFill(full, holes), b) :
     holes \in SUBSET slots, a \in 0..MaxPad, b \in 0..MaxPad}
SchemaInputs ==
  ([field : {"cep"},
    value : {Str(s) : s \in Masked(CepFull, CepMaskSlots) \cup Pieces(CepFull)}
            \cup {Undefined}])
  \cup
  ([field : {"telefone"},
    value : {Str(s) : s \in Masked(TelFull, TelefoneMaskSlots) \cup Pieces(TelFull)}
            \cup {Undefined}])

\* the resolver hands candidate to the schema
ParseField ==
  /\ issue = "unparsed"
  /\ issue' = FieldIssue(candidate.field, candidate.value)
  /\ UNCHANGED <<candidate, cardVars, formVars>>

InitSchema ==
  /\ candidate \in SchemaInputs
  /\ issue = "unparsed"
  /\ CardIdle
  /\ FormIdle

SpecSchema == InitSchema /\ [][ParseField]_vars

\* ======================================================== the claims
IsNotSpace(c) == c # " "
\* s without the spaces around it
Core(s) ==
  LET inked == {i \in 1..Len(s) : s[i] # " "} IN
  IF inked = {} THEN <<>>
  ELSE SubSeq(s, CHOOSE i \in inked : \A j \in inked : i <= j,
                 CHOOSE i \in inked : \A j \in inked : i >= j)
\* how many characters of s are not mask placeholders
TypedCount(s) == Cardinality({i \in 1..Len(s) : s[i] # "_"})

\* C8: a 16-digit card number is shown as its four 4-character groups, in order,
\* separated by single spaces (19 characters); a shorter card number still yields a
\* text, its groups truncated or empty and the three spaces kept.
C8_CardNumberGroups ==
  cardNumber # Undefined =>
    LET n == numeroCartao
        out == cardNumber.s
    IN  /\ (Len(n) = 16 /\ \A i \in 1..16 : n[i] \in DigitChars) =>
             /\ Len(out) = 19
             /\ \A g \in 0..3 : \A j \in 1..4 : out[5 * g + j] = n[4 * g + j]
             /\ \A g \in 1..3 : out[5 * g] = " "
        /\ Len(n) < 16 =>
             /\ IsString(cardNumber)
             /\ Len(out) = Len(n) + 3
             /\ \A k \in 1..3 : out[Min(4 * k, Len(n)) + k] = " "
             /\ SelectSeq(out, IsNotSpace) = n
C8_Witness ==
  /\ cardNumber # Undefined
  /\ Len(numeroCartao) = 16
  /\ numeroCartao[1] # numeroCartao[5]
  /\ Len(cardNumber.s) = 19
C8_WitnessShort ==
  /\ cardNumber # Undefined
  /\ Len(numeroCartao) = 6
  /\ cardNumber.s = SubSeq(numeroCartao, 1, 4) \o <<" ">>
                    \o SubSeq(numeroCartao, 5, 6) \o <<" ", " ">>

\* a value that fills mask="99999-999"
C9_FilledCep(s) ==
  /\ Len(s) = 9
  /\ s[6] = "-"
  /\ \A i \in (1..9) \ {6} : s[i] \in DigitChars
\* a value that fills mask="+5\5 99 99999-9999"
C9_FilledTelefone(s) ==
  /\ Len(s) = 17
  /\ SubSeq(s, 1, 3) = <<"+", "5", "5">>
  /\ s[4] = " " /\ s[7] = " " /\ s[13] = "-"
  /\ \A i \in (5..17) \ {7, 13} : s[i] \in DigitChars
\* C9: a postal code filled to its 9-character mask passes and one with fewer than 9
\* characters once the '_' placeholders are removed fails with the CEP message; a phone
\* filled to its 17-character mask passes and one with fewer than 17 characters once
\* '_' is removed fails with the phone message; spaces around the value do not count,
\* and an undefined value passes.
C9_MaskLengthValidation ==
  issue # "unparsed" =>
    LET v == candidate.value IN
    /\ v = Undefined => issue = "ok"
    /\ (candidate.field = "cep" /\ IsString(v)) =>
         /\ C9_FilledCep(Core(v.s)) => issue = "ok"
         /\ TypedCount(Core(v.s)) < 9 => issue = "Digite um CEP válido"
    /\ (candidate.field = "telefone" /\ IsString(v)) =>
         /\ C9_FilledTelefone(Core(v.s)) => issue = "ok"
         /\ TypedCount(Core(v.s)) < 17 => issue = "Digite um telefone válido"
C9_Witness ==
  /\ candidate = [field |-> "cep", value |-> Str(<<" ">> \o CepFull)]
  /\ issue = "ok"
C9_WitnessPartial ==
  /\ candidate = [field |-> "telefone", value |-> Str(TelPartial)]
  /\ issue = "Digite um telefone válido"

\* C1: every GET /conta but the one of the mount effect is the reload of one PUT
\* /clientes that resolved: one reload per successful update, none for a failed one.
C1_OneReloadPerSuccessfulPut ==
  getIssued = (IF effectRan THEN 1 ELSE 0) + putOk
C1_Witness ==
  /\ putOk = 1
  /\ putRejected = 1
  /\ getIssued = 2

\* the toast the error classification rule asks for
C2_ExpectedToast(error) ==
  IF error.isAppError
  THEN [title |-> error.message,
        description |-> "Verifique os dados e tente novamente.",
        isError |-> TRUE]
  ELSE [title |-> "Erro no servidor.",
        description |-> "Tente novamente mais tarde.",
        isError |-> TRUE]
\* C2: showToast is called once per rejected PUT or DELETE and never otherwise; for an
\* AppError the title is the error's message and the description the remediation hint,
\* for any other error the title and description are the generic ones, in both handlers.
C2_ToastPerFailure ==
  /\ toastCalls = putRejected + delRejected
  /\ thrown = NoThrown => toast = NoToast
  /\ thrown # NoThrown => toast = C2_ExpectedToast(thrown.error)
C2_Witness ==
  /\ thrown.op = "DELETE"
  /\ ~thrown.error.isAppError
  /\ toast.title = "Erro no servidor."
  /\ putRejected = 1
  /\ putOk = 1

\* C3: logout is called at most once, only for a DELETE that resolved, and once it has
\* been called the form issues no PUT /clientes, DELETE /clientes or GET /conta.
C3_LogoutOnceAndFinal ==
  [][/\ logoutCalls' <= 1
     /\ logoutCalls' <= delOk'
     /\ logoutCalls >= 1 =>
          /\ putIssued' = putIssued
          /\ delIssued' = delIssued
          /\ getIssued' = getIssued]_vars
\* the parts of C3, each on its own
C3_LogoutAtMostOnce == logoutCalls <= 1
C3_NoRequestAfterLogout ==
  [][logoutCalls >= 1 =>
       /\ putIssued' = putIssued
       /\ delIssued' = delIssued
       /\ getIssued' = getIssued]_vars
C3_NoClickAfterLogout ==
  [][logoutCalls >= 1 => (submits' = submits /\ deleteClicks' = deleteClicks)]_vars
C3_LogoutOnlyAfterDelete == logoutCalls = delOk /\ delOk <= delIssued

\* C4: at most one PUT /clientes is outstanding, and while one is the submit button is
\* disabled.
C4_OnePutOutstanding ==
  /\ putIssued - putOk - putRejected <= 1
  /\ putIssued - putOk - putRejected = 1 => isSubmitting
C4_Witness ==
  /\ putIssued - putOk - putRejected = 1
  /\ putIssued = 2
  /\ FormRendered

\* value v of field f breaks the rule the schema states for f
C5_Breaks(f, v) ==
  CASE f = "nome"     -> IsString(v) /\ Core(v.s) = <<>>
    [] f = "cep"      -> IsString(v) /\ TypedCount(Core(v.s)) # 9
    [] f = "telefone" -> IsString(v) /\ TypedCount(Core(v.s)) # 17
    [] f = "senha"    -> IsString(v) /\ Len(v.s) < 8
    [] f = "endereco" -> ~IsString(v)
    [] f = "numero"   -> ~IsString(v)
\* the messages a failing field f may carry
C5_Message(f) ==
  CASE f = "nome"     -> {"Digite um nome válido."}
    [] f = "cep"      -> {"Digite um CEP válido"}
    [] f = "telefone" -> {"Digite um telefone válido"}
    [] f = "senha"    -> {"A senha deve conter no mínimo 8 caracteres"}
    [] OTHER          -> {"Required", "Expected string"}
\* C5: a submit of form data that breaks a rule of the schema issues no PUT /clientes
\* and no GET /conta, and every failing field carries its message.
C5_InvalidSubmitStaysLocal ==
  [][(submits' = submits + 1 /\ \E f \in Fields : C5_Breaks(f, form[f])) =>
       /\ putIssued' = putIssued
       /\ getIssued' = getIssued
       /\ \A f \in Fields : C5_Breaks(f, form[f]) => errors'[f] \in C5_Message(f)]_vars
C5_Witness ==
  /\ submits = 2
  /\ putIssued = 1
  /\ errors["cep"] = "Digite um CEP válido"
  /\ errors["senha"] = "A senha deve conter no mínimo 8 caracteres"
  /\ errors["nome"] = "ok"

\* the lifecycle state of the form
Phase ==
  IF isLoading THEN "Loading" ELSE IF isSubmitting THEN "Submitting" ELSE "Ready"
\* C6 as written: the only transitions are Loading -> Ready, Ready -> Submitting and
\* Submitting -> Ready.
C6_AsWritten ==
  [][Phase' # Phase =>
       <<Phase, Phase'>> \in {<<"Loading", "Ready">>, <<"Ready", "Submitting">>,
                              <<"Submitting", "Ready">>}]_vars
\* one step of the lifecycle
C6_Step ==
  /\ Phase' # Phase =>
       <<Phase, Phase'>> \in {<<"Loading", "Ready">>, <<"Ready", "Submitting">>,
                              <<"Submitting", "Loading">>, <<"Submitting", "Ready">>}
  /\ (Phase = "Loading" /\ Phase' = "Ready") => getOk' = getOk + 1
  /\ (Phase = "Ready" /\ Phase' = "Submitting") =>
       (submits' = submits + 1 /\ putIssued' = putIssued + 1)
  /\ (Phase = "Submitting" /\ Phase' = "Loading") =>
       (putOk' = putOk + 1 /\ getIssued' = getIssued + 1 /\ toastCalls' = toastCalls)
  /\ (Phase = "Submitting" /\ Phase' = "Ready") =>
       (putRejected' = putRejected + 1 /\ toastCalls' = toastCalls + 1)
  /\ putOk' = putOk + 1 => (Phase = "Submitting" /\ Phase' = "Loading")
  /\ SubmitEnabled => Phase = "Ready"
\* C6 as amended: the form starts in Loading; a load that populates it moves it to
\* Ready; an accepted submit moves Ready to Submitting; a PUT that resolves moves Submitting to
\* Loading (the reload); a PUT that rejects moves Submitting to Ready with a toast; no
\* other transition occurs, and the submit button is enabled only in Ready.
C6_Lifecycle == (Phase = "Loading") /\ [][C6_Step]_vars
C6_Witness ==
  /\ Phase = "Loading"
  /\ putOk = 1
  /\ getOk = 1
  /\ getIssued = 2

\* C7: once a GET /conta has rejected, an alert has been shown, isLoading stays true,
\* the failed load changed no field, and no GET /conta, PUT /clientes or DELETE
\* /clientes is issued any more.
C7_LoadFailureIsFinal ==
  [][/\ getRejected' = getRejected + 1 =>
          (alerts' = alerts + 1 /\ form' = form /\ isLoading')
     /\ getRejected >= 1 => alerts >= 1
     /\ alerts >= 1 =>
          /\ isLoading /\ isLoading'
          /\ ~FormRendered
          /\ getIssued' = getIssued
          /\ putIssued' = putIssued
          /\ delIssued' = delIssued]_vars
C7_Witness ==
  /\ getRejected = 1
  /\ putOk = 1
  /\ isLoading
  /\ mounted

\* C10 as written: a successful load populates six form fields.
C10_AsWritten == getOk >= 1 => Cardinality(populated) = 6
\* the number a decimal text denotes
RECURSIVE DecimalValue(_)
DecimalValue(s) ==
  IF s = <<>> THEN 0
  ELSE 10 * DecimalValue(SubSeq(s, 1, Len(s) - 1))
       + (CHOOSE d \in 0..9 : Digit(d) = s[Len(s)])
\* one step of the form, seen by its load
C10_Step ==
  /\ (getResolved' = getResolved + 1 /\ data'.cliente # Undefined) =>
       /\ populated' = {"nome", "endereco", "cep", "numero", "telefone"}
       /\ \A f \in {"nome", "endereco", "cep", "telefone"} :
            form'[f] = data'.cliente[f]
       /\ IsString(form'["numero"])
       /\ data'.cliente.numero.t = "number" =>
            DecimalValue(form'["numero"].s) = data'.cliente.numero.n
       /\ form'["senha"] = form["senha"]
       /\ isLoading /\ ~isLoading'
  /\ (isLoading /\ ~isLoading') =>
       (getResolved' = getResolved + 1 /\ data'.cliente # Undefined)
\* C10 as amended: a GET /conta reply that carries data.cliente populates the five
\* fields nome, endereco, cep, numero and telefone from the reply (senha is left as it
\* was), numero as the text of the reply's number, and isLoading becomes false in that
\* step and in no other.
C10_LoadPopulatesFive == [][C10_Step]_vars
C10_Witness ==
  /\ getOk = 2
  /\ ~isLoading
  /\ data.cliente # Undefined
  /\ data.cliente.numero = Num(42)
  /\ form["numero"] = Str(<<"4", "2">>)
  /\ form["senha"] = Str(SenhaOk)

====
